---- MODULE Spec2Model ----
(***************************************************************************)
(* Model of pages/[id].jsx (multi_page_md_viewer_react.jsx): the manifest, *)
(* getStaticPaths, getStaticProps and the LearnPage component, driven by a *)
(* static build.                                                           *)
(*                                                                         *)
(* JavaScript arrays are 0-based; the manifest is a TLA+ sequence, so      *)
(* manifest[k] of the source is At(manifest, k) == manifest[k + 1] here.   *)
(* File contents are sequences of lines; the delimiter line of a front     *)
(* matter block is the token "---".                                        *)
(***************************************************************************)
EXTENDS Integers, Sequences, FiniteSets, TLC

VARIABLES
    manifest,   \* const manifest = [...]                       (line 34)
    fs,         \* the files under public/content, by file name (line 33)
    paths,      \* the last value returned by getStaticPaths
    calls,      \* calls[id]: number of getStaticProps({params:{id}}) calls
    reads,      \* reads[file]: number of fs.readFileSync calls on the file
    resolved,   \* resolved[id]: value of `page` after line 52 of the last call
    props,      \* props[id]: value returned by the last call, if it returned
    error,      \* the exception that left getStaticProps uncaught, if any
    view,       \* view[id]: state and output of the LearnPage instance of id
    build       \* "running", "failed" or "done"

vars == <<manifest, fs, paths, calls, reads, resolved, props, error, view, build>>

----------------------------------------------------------------------------
(* Bounds *)

MaxCalls == 2       \* getStaticProps calls per id
MaxRenders == 2     \* LearnPage renders per page
MaxLines == 4       \* lines of a content file

----------------------------------------------------------------------------
(* JavaScript values *)

Undefined == [js |-> "undefined"]    \* Array.prototype.find without a match
Null == [js |-> "null"]              \* the literal null of lines 70-71
None == [js |-> "none"]              \* nothing returned / not called yet
NoBg == ""                           \* a descriptor without bg: page.bg falsy

----------------------------------------------------------------------------
(* The manifest, lines 34-38 *)

Min(S) == CHOOSE x \in S : \A y \in S : x <= y

PageIds == {"network", "os", "crypto"}

\* The titles of the source are Chinese strings; they are transliterated.
TitleOf(id) ==
    CASE id = "network" -> "Computer Networks"
      [] id = "os" -> "Operating Systems"
      [] id = "crypto" -> "Cryptography"

FileOf(id) ==
    CASE id = "network" -> "network.md"
      [] id = "os" -> "os.md"
      [] id = "crypto" -> "crypto.md"

BgOf(id) ==
    CASE id = "network" -> "/images/network.jpg"
      [] id = "os" -> "/images/os.jpg"
      [] id = "crypto" -> "/images/crypto.jpg"

Descriptor(id, bg) == [id |-> id, title |-> TitleOf(id), file |-> FileOf(id), bg |-> bg]

\* The manifest as the source has it.
DefaultManifest ==
    << Descriptor("network", BgOf("network")),
       Descriptor("os", BgOf("os")),
       Descriptor("crypto", BgOf("crypto")) >>

\* Ids requested from getStaticProps: the pool plus one id no manifest has.
RequestIds == PageIds \cup {"unknown"}

UniqueIds(m) == \A i, j \in DOMAIN m : m[i].id = m[j].id => i = j

\* The manifests a site of these pages can be configured with (lines 184-186:
\* a page is an entry { id, title, file, bg } of the array): any non-empty
\* selection of the entries of the source, in the order of the source, each
\* with or without its bg.
Descriptors == UNION { {Descriptor(id, BgOf(id)), Descriptor(id, NoBg)} : id \in PageIds }

SourceIndex(id) == Min({ i \in DOMAIN DefaultManifest : DefaultManifest[i].id = id })

Manifests ==
    { m \in UNION { [1..n -> Descriptors] : n \in 1..Len(DefaultManifest) } :
        \A i, j \in DOMAIN m : i < j => SourceIndex(m[i].id) < SourceIndex(m[j].id) }

ManifestIds(m) == { m[i].id : i \in DOMAIN m }
ManifestFiles(m) == { m[i].file : i \in DOMAIN m }

----------------------------------------------------------------------------
(* Array helpers *)

At(m, k) == m[k + 1]

\* Find returning the last descriptor of the array whenever one matches.
FindLastEntry(m, id) ==
    IF \E i \in DOMAIN m : m[i].id = id
    THEN m[Len(m)]
    ELSE Undefined

\* manifest.find((m) => m.id === id): the first match, or undefined.
Find(m, id) ==
    IF \E i \in DOMAIN m : m[i].id = id
    THEN m[Min({ i \in DOMAIN m : m[i].id = id })]
    ELSE Undefined

\* findIndex counting from 1.
FindIndexOneBased(m, id) ==
    IF \E i \in DOMAIN m : m[i].id = id
    THEN Min({ i \in DOMAIN m : m[i].id = id })
    ELSE -1

\* manifest.findIndex((m) => m.id === id): 0-based, -1 without a match.
FindIndex(m, id) ==
    IF \E i \in DOMAIN m : m[i].id = id
    THEN Min({ i \in DOMAIN m : m[i].id = id }) - 1
    ELSE -1

----------------------------------------------------------------------------
(* Content files *)

Delim == "---"
Tokens == {Delim, "text"}

Contents(n) == UNION { [1..k -> Tokens] : k \in 0..n }

Missing == [status |-> "ENOENT", data |-> <<>>]
Unreadable == [status |-> "EACCES", data |-> <<>>]
Readable(c) == [status |-> "ok", data |-> c]

PlainFile == <<"text", "text">>
FrontMatterFile == <<Delim, "text", Delim, "text", "text">>

\* matter leaving the closing delimiter in the content.
MatterKeepCloser(c) ==
    IF c = <<>> \/ Head(c) # Delim
    THEN c
    ELSE LET closers == { k \in 2..Len(c) : c[k] = Delim }
         IN  IF closers = {}
             THEN <<>>
             ELSE SubSeq(c, Min(closers), Len(c))

\* matter(fileContents).content of gray-matter: a file that does not begin
\* with the delimiter is returned whole; otherwise the block runs to the next
\* delimiter line and the content is what follows it; a block that is never
\* closed takes the whole file and the content is empty.
Matter(c) ==
    IF c = <<>> \/ Head(c) # Delim
    THEN c
    ELSE LET closers == { k \in 2..Len(c) : c[k] = Delim }
         IN  IF closers = {}
             THEN <<>>
             ELSE SubSeq(c, Min(closers) + 1, Len(c))


\* path.join(contentDir, page.file), with contentDir = <cwd>/public/content.
contentDir == <<"public", "content">>
FullPath(file) == Append(contentDir, file)

ManifestPaths(m) == { FullPath(f) : f \in ManifestFiles(m) }

\* fs.readFileSync(fullPath, 'utf8'): the contents, or the thrown error.
ReadFileSync(files, fullPath) ==
    IF fullPath \notin DOMAIN files
    THEN [ok |-> FALSE, data |-> <<>>, code |-> "ENOENT"]
    ELSE IF files[fullPath].status # "ok"
         THEN [ok |-> FALSE, data |-> <<>>, code |-> files[fullPath].status]
         ELSE [ok |-> TRUE, data |-> files[fullPath].data, code |-> "ok"]

----------------------------------------------------------------------------
(* getStaticPaths, lines 43-46 *)

\* getStaticPaths losing the last descriptor.
StaticPathsDropLast(m) ==
    [ paths |-> [i \in 1..(Len(m) - 1) |-> [params |-> [id |-> m[i].id]]],
      fallback |-> FALSE ]

StaticPaths(m) ==
    [ paths |-> [i \in DOMAIN m |-> [params |-> [id |-> m[i].id]]],
      fallback |-> FALSE ]

GetStaticPaths ==
    /\ build = "running"
    /\ paths' = StaticPaths(manifest)
    /\ UNCHANGED <<manifest, fs, calls, reads, resolved, props, error, view, build>>

----------------------------------------------------------------------------
(* getStaticProps, lines 51-63 *)

\* getStaticProps catching the read error and returning an empty page.
StaticPropsSkip(m, files, id) ==
    LET page == Find(m, id)
    IN  IF page = Undefined
        THEN [ page |-> page, read |-> FALSE, path |-> <<>>, result |-> None,
               thrown |-> [name |-> "TypeError", code |-> "none"] ]
        ELSE LET fullPath == FullPath(page.file)
                 fileContents == ReadFileSync(files, fullPath)
             IN  [ page |-> page, read |-> TRUE, path |-> fullPath,
                   result |-> [props |-> [page |-> page,
                                          content |-> IF fileContents.ok
                                                      THEN Matter(fileContents.data)
                                                      ELSE <<>>]],
                   thrown |-> None ]

\* One call: what line 52 found, whether line 54 was reached, and either the
\* returned props or the exception that escaped (nothing is caught).
StaticProps(m, files, id) ==
    LET page == Find(m, id)
    IN  IF page = Undefined
        THEN \* line 53: page.file on undefined
             [ page |-> page, read |-> FALSE, path |-> <<>>, result |-> None,
               thrown |-> [name |-> "TypeError", code |-> "none"] ]
        ELSE LET fullPath == FullPath(page.file)
                 fileContents == ReadFileSync(files, fullPath)
             IN  IF ~fileContents.ok
                 THEN [ page |-> page, read |-> TRUE, path |-> fullPath, result |-> None,
                        thrown |-> [name |-> "Error", code |-> fileContents.code] ]
                 ELSE [ page |-> page, read |-> TRUE, path |-> fullPath,
                        result |-> [props |-> [page |-> page,
                                               content |-> Matter(fileContents.data)]],
                        thrown |-> None ]

\* getStaticProps answering a repeated request from the props it returned
\* before, without reading the file again.
GetStaticPropsCached(id) ==
    /\ build = "running"
    /\ calls[id] < MaxCalls
    /\ LET r == StaticProps(manifest, fs, id)
           hit == props[id] # None
       IN  /\ calls' = [calls EXCEPT ![id] = @ + 1]
           /\ resolved' = [resolved EXCEPT ![id] = r.page]
           /\ reads' = IF r.read /\ ~hit THEN [reads EXCEPT ![r.path] = @ + 1] ELSE reads
           /\ IF hit
              THEN UNCHANGED <<props, error, build>>
              ELSE IF r.thrown = None
                   THEN /\ props' = [props EXCEPT ![id] = r.result]
                        /\ UNCHANGED <<error, build>>
                   ELSE /\ error' = r.thrown
                        /\ build' = "failed"
                        /\ UNCHANGED props
    /\ UNCHANGED <<manifest, fs, paths, view>>

GetStaticProps(id) ==
    /\ build = "running"
    /\ calls[id] < MaxCalls
    /\ LET r == StaticProps(manifest, fs, id)
       IN  /\ calls' = [calls EXCEPT ![id] = @ + 1]
           /\ resolved' = [resolved EXCEPT ![id] = r.page]
           /\ reads' = IF r.read THEN [reads EXCEPT ![r.path] = @ + 1] ELSE reads
           /\ IF r.thrown = None
              THEN /\ props' = [props EXCEPT ![id] = r.result]
                   /\ UNCHANGED <<error, build>>
              ELSE /\ error' = r.thrown
                   /\ build' = "failed"
                   /\ UNCHANGED props
    /\ UNCHANGED <<manifest, fs, paths, view>>

----------------------------------------------------------------------------
(* LearnPage, lines 68-168 *)

\* `/${id}` of lines 91, 99 and 115, and the id a route /[id] extracts from it.
Href(id) == <<"/", id>>
RouteId(href) == href[2]

\* next wrapping around to the first page; prev off by one.
NextOfWrap(m, index) == At(m, (index + 1) % Len(m))
PrevOfSelf(m, index) == IF index > 0 THEN At(m, index) ELSE Null

\* Lines 70-71.
NextOf(m, index) == IF index < Len(m) - 1 THEN At(m, index + 1) ELSE Null
PrevOf(m, index) == IF index > 0 THEN At(m, index - 1) ELSE Null

\* The style without the fallback to the gradient.
BackgroundStyleImageOnly(page) ==
    [ backgroundImage |-> <<"url(", page.bg, ")">>,
      backgroundSize |-> "cover",
      backgroundPosition |-> "center",
      background |-> "" ]

\* Lines 73-79.
BackgroundStyle(page) ==
    IF page.bg # NoBg
    THEN [ backgroundImage |-> <<"url(", page.bg, ")">>,
           backgroundSize |-> "cover",
           backgroundPosition |-> "center",
           background |-> "" ]
    ELSE [ backgroundImage |-> <<>>,
           backgroundSize |-> "",
           backgroundPosition |-> "",
           background |-> "linear-gradient(135deg, #0f172a, #021124)" ]

\* Lines 89-104: `x && <a href=...>` renders the link only for a non-null x.
NavLink(d) == IF d # Null THEN [href |-> Href(d.id), text |-> d.title] ELSE Null

\* Lines 112-122: one entry per manifest descriptor, the current one marked.
Sidebar(m, page) ==
    [ i \in DOMAIN m |-> [ href |-> Href(m[i].id),
                           text |-> m[i].title,
                           active |-> (m[i].id = page.id) ] ]

\* Lines 154-164: "(index + 1)/(manifest.length)" and the width of the bar,
\* ((index + 1) / manifest.length) * 100 percent, kept as a fraction.
Footer(m, page, index) ==
    [ title |-> page.title,
      position |-> index + 1,
      total |-> Len(m),
      width |-> [num |-> (index + 1) * 100, den |-> Len(m)] ]

\* React.useState(initial): the initial value on mount, the stored state on
\* every later render; setIndex is never called.
UseState(stored, initial) == IF stored = None THEN initial ELSE stored.index

Render(m, stored, p) ==
    LET page == p.page
        index == UseState(stored, FindIndex(m, page.id))
        next == NextOf(m, index)
        prev == PrevOf(m, index)
    IN  [ renders |-> (IF stored = None THEN 0 ELSE stored.renders) + 1,
          index |-> index,
          next |-> next,
          prev |-> prev,
          style |-> BackgroundStyle(page),
          prevLink |-> NavLink(prev),
          nextLink |-> NavLink(next),
          sidebar |-> Sidebar(m, page),
          key |-> page.id,
          markdown |-> p.content,
          footer |-> Footer(m, page, index) ]

Renders(id) == IF view[id] = None THEN 0 ELSE view[id].renders

\* The framework renders the component with the props getStaticProps returned.
LearnPage(id) ==
    /\ build = "running"
    /\ id \in DOMAIN view
    /\ props[id] # None
    /\ Renders(id) < MaxRenders
    /\ view' = [view EXCEPT ![id] = Render(manifest, view[id], props[id].props)]
    /\ UNCHANGED <<manifest, fs, paths, calls, reads, resolved, props, error, build>>

----------------------------------------------------------------------------
(* The static build, lines 188-194: next build && next export *)

PathIds(p) == { p.paths[i].params.id : i \in DOMAIN p.paths }

\* The ids that have a route: with fallback: false only the returned paths.
Routes(p) == IF p.fallback THEN RequestIds ELSE PathIds(p)

\* The export completes once every path of getStaticPaths has its props and
\* its rendered page; an exception out of getStaticProps has ended it before.
FinishBuild ==
    /\ build = "running"
    /\ paths # None
    /\ \A id \in PathIds(paths) : id \in DOMAIN view /\ props[id] # None /\ view[id] # None
    /\ build' = "done"
    /\ UNCHANGED <<manifest, fs, paths, calls, reads, resolved, props, error, view>>

----------------------------------------------------------------------------
(* Specifications *)

FileStates == {Missing, Unreadable, Readable(FrontMatterFile)}

InitRest ==
    /\ paths = None
    /\ calls = [id \in RequestIds |-> 0]
    /\ reads = [f \in ManifestPaths(manifest) |-> 0]
    /\ resolved = [id \in RequestIds |-> None]
    /\ props = [id \in RequestIds |-> None]
    /\ error = None
    /\ view = [id \in ManifestIds(manifest) |-> None]
    /\ build = "running"

\* A build of any configured manifest over any state of its content files.
Init ==
    /\ manifest \in Manifests
    /\ fs \in [ManifestPaths(manifest) -> FileStates]
    /\ InitRest

\* Three readable files that differ: network.md of any content, os.md plain,
\* crypto.md with a front matter block.
LoadFiles(c) ==
    [ f \in ManifestPaths(DefaultManifest) |->
        IF f = FullPath("network.md") THEN Readable(c)
        ELSE IF f = FullPath("os.md") THEN Readable(PlainFile)
        ELSE Readable(FrontMatterFile) ]

\* The manifest of the source over readable files of any content.
InitLoad ==
    /\ manifest = DefaultManifest
    /\ \E c \in Contents(MaxLines) : fs = LoadFiles(c)
    /\ InitRest

Next ==
    \/ GetStaticPaths
    \/ \E id \in RequestIds : GetStaticProps(id)
    \/ \E id \in PageIds : LearnPage(id)
    \/ FinishBuild

Spec == Init /\ [][Next]_vars

SpecLoad == InitLoad /\ [][Next]_vars

----------------------------------------------------------------------------
(* Properties *)

\* 1-based position of a manifest id, stated independently of FindIndex.
PosOf(id) == CHOOSE i \in DOMAIN manifest : manifest[i].id = id

Rendered(id) == id \in DOMAIN view /\ view[id] # None

PathOf(id) == <<"public", "content", FileOf(id)>>

\* C1: for every rendered manifest page, previous is absent at the first
\* position, next is absent at the last, otherwise they are the manifest
\* entries at position-1 and position+1 (no wraparound); the page has a prev
\* link to /<previous.id> and a next link to /<next.id> exactly when that
\* neighbor exists. For [network, os, crypto]: os has network before and
\* crypto after it, network has nothing before and os after it.
C1_Neighbors ==
    /\ \A id \in DOMAIN view : view[id] # None =>
         LET v == view[id]
             pos == PosOf(id)
         IN  /\ v.prev = (IF pos = 1 THEN Null ELSE manifest[pos - 1])
             /\ v.next = (IF pos = Len(manifest) THEN Null ELSE manifest[pos + 1])
             /\ v.prevLink = (IF pos = 1 THEN Null
                              ELSE [href |-> <<"/", manifest[pos - 1].id>>,
                                    text |-> manifest[pos - 1].title])
             /\ v.nextLink = (IF pos = Len(manifest) THEN Null
                              ELSE [href |-> <<"/", manifest[pos + 1].id>>,
                                    text |-> manifest[pos + 1].title])
    /\ manifest = DefaultManifest =>
         /\ view["os"] # None => view["os"].prev.id = "network" /\ view["os"].next.id = "crypto"
         /\ view["network"] # None =>
              view["network"].prev = Null /\ view["network"].next.id = "os"

C1_Witness ==
    /\ manifest = DefaultManifest
    /\ view["os"] # None
    /\ view["network"] # None
    /\ view["crypto"] # None

\* C2 (as claimed): getStaticProps for an id that no manifest descriptor has
\* fails with a NotFoundError, returns no props and reads no file.
C2_NotFoundError ==
    \A id \in RequestIds \ ManifestIds(manifest) :
        calls[id] > 0 =>
            /\ error # None
            /\ error.name = "NotFoundError"
            /\ props[id] = None
            /\ \A d \in ManifestIds(manifest) : reads[PathOf(d)] = calls[d]

\* C3: getStaticPaths yields one path per descriptor, in manifest order, every
\* manifest id present, no other id, no duplicates, and fallback disabled, so
\* that no route exists for any other id.
C3_StaticPaths ==
    paths # None =>
        /\ Len(paths.paths) = Len(manifest)
        /\ \A i \in DOMAIN manifest : paths.paths[i] = [params |-> [id |-> manifest[i].id]]
        /\ \A i, j \in DOMAIN paths.paths :
               paths.paths[i].params.id = paths.paths[j].params.id => i = j
        /\ { paths.paths[i].params.id : i \in DOMAIN paths.paths } = ManifestIds(manifest)
        /\ paths.fallback = FALSE
        /\ \A id \in RequestIds \ ManifestIds(manifest) : id \notin Routes(paths)

C3_Witness == paths # None /\ Len(manifest) = 3 /\ build = "done"

\* C4: for every manifest id, every call of getStaticProps resolves the
\* descriptor whose id is the requested id, and a later call, whatever ran in
\* between, resolves the same descriptor.
C4_ResolveTotalIdempotent ==
    /\ [](\A id \in ManifestIds(manifest) :
            calls[id] > 0 =>
                /\ resolved[id] # Undefined
                /\ resolved[id] \in Descriptors
                /\ resolved[id].id = id
                /\ resolved[id] = manifest[PosOf(id)])
    /\ [][\A id \in ManifestIds(manifest) :
            calls[id] > 0 => resolved'[id] = resolved[id]]_vars

C4_Witness ==
    /\ Len(manifest) = 3
    /\ \A id \in ManifestIds(manifest) : calls[id] = MaxCalls /\ resolved[id].id = id

\* C5: when the content file of a listed descriptor is missing or unreadable,
\* the call that reads it fails the build with the error of the read; no props
\* and no page are ever produced for that descriptor, the read is not
\* repeated, and the build is never done with less than all its pages.
C5_FatalReadError ==
    /\ \A id \in ManifestIds(manifest) :
         fs[PathOf(id)].status # "ok" =>
            /\ props[id] = None
            /\ view[id] = None
            /\ build # "done"
            /\ reads[PathOf(id)] <= 1
            /\ calls[id] > 0 =>
                 /\ build = "failed"
                 /\ error = [name |-> "Error", code |-> fs[PathOf(id)].status]
    /\ build = "done" =>
         \A id \in ManifestIds(manifest) : props[id] # None /\ view[id] # None

C5_Witness ==
    /\ build = "failed"
    /\ \E id \in ManifestIds(manifest) :
         /\ fs[PathOf(id)] = Missing
         /\ calls[id] = 1
         /\ error.code = "ENOENT"
    /\ \E id \in ManifestIds(manifest) : props[id] # None /\ view[id] # None

\* The lines of a file split as gray-matter splits them: the block is the
\* opening delimiter, the lines up to the next delimiter and that delimiter;
\* a block that is never closed runs to the end of the file.
HasBlock(c) == Len(c) > 0 /\ c[1] = "---"
Closed(c) == \E k \in 2..Len(c) : c[k] = "---"

C7_Independent ==
    /\ [][manifest' = manifest /\ fs' = fs]_vars
    /\ [](\A id \in ManifestIds(manifest) : reads[PathOf(id)] = calls[id])
    /\ [][\A id \in ManifestIds(manifest) :
            (calls'[id] = calls[id] /\ Renders(id)' = Renders(id)) =>
                /\ props'[id] = props[id]
                /\ resolved'[id] = resolved[id]
                /\ view'[id] = view[id]
                /\ reads'[PathOf(id)] = reads[PathOf(id)]]_vars
    /\ [](\A id \in ManifestIds(manifest) :
            /\ props[id] # None =>
                 props[id].props = [ page |-> manifest[PosOf(id)],
                                     content |-> Matter(fs[PathOf(id)].data) ]
            /\ view[id] # None =>
                 /\ view[id].index = PosOf(id) - 1
                 /\ view[id].markdown = props[id].props.content
                 /\ view[id].prev = (IF PosOf(id) = 1 THEN Null ELSE manifest[PosOf(id) - 1])
                 /\ view[id].next = (IF PosOf(id) = Len(manifest) THEN Null
                                     ELSE manifest[PosOf(id) + 1]))

C7_Witness ==
    /\ paths # None
    /\ Len(manifest) = 3
    /\ \A id \in ManifestIds(manifest) :
         calls[id] = MaxCalls /\ reads[PathOf(id)] = MaxCalls /\ view[id] # None

\* The manifest with the bg of the source given back to the entry of id.
WithBg(m, id) == [ i \in DOMAIN m |-> IF m[i].id = id THEN Descriptor(id, BgOf(id)) ELSE m[i] ]

\* C8: a descriptor without bg is resolved, loaded and rendered like any
\* other: its page carries the default gradient instead of an image, and its
\* index, body, neighbors and links are those the same manifest gives when the
\* descriptor has its bg; a page with a bg carries url(bg).
C8_DefaultBackground ==
    \A id \in ManifestIds(manifest) :
        view[id] # None =>
            LET v == view[id]
                page == props[id].props.page
                m2 == WithBg(manifest, id)
                p2 == StaticProps(m2, fs, id).result.props
                v2 == Render(m2, None, p2)
            IN  /\ page.bg = NoBg =>
                     /\ v.style.background = "linear-gradient(135deg, #0f172a, #021124)"
                     /\ v.style.backgroundImage = <<>>
                     /\ resolved[id] = Descriptor(id, NoBg)
                     /\ p2.page.bg = BgOf(id)
                     /\ v.index = v2.index
                     /\ v.markdown = v2.markdown
                     /\ v.prev = v2.prev /\ v.next = v2.next
                     /\ v.prevLink = v2.prevLink /\ v.nextLink = v2.nextLink
                     /\ v.sidebar = v2.sidebar
                     /\ v.footer = v2.footer
                /\ page.bg # NoBg =>
                     /\ v.style.backgroundImage = <<"url(", BgOf(id), ")">>
                     /\ v.style.background = ""

C8_Witness ==
    /\ build = "done"
    /\ Len(manifest) = 3
    /\ manifest[2].bg = NoBg
    /\ manifest[1].bg # NoBg
    /\ view[manifest[2].id].style.background = "linear-gradient(135deg, #0f172a, #021124)"
    /\ view[manifest[1].id].style.backgroundImage # <<>>

\* The pages visited from the page of id by following next links, at most
\* fuel of them.
RECURSIVE Walk(_, _)
Walk(id, fuel) ==
    IF fuel = 0 \/ ~Rendered(id)
    THEN <<>>
    ELSE IF view[id].nextLink = Null
         THEN <<id>>
         ELSE <<id>> \o Walk(view[id].nextLink.href[2], fuel - 1)

AllRendered == \A id \in ManifestIds(manifest) : view[id] # None

\* C9: once every manifest page is rendered, following the next links from
\* the first page visits every manifest page once, in manifest order, and
\* ends at the last page, which has no next link; and for rendered pages a
\* and b, the next link of a leads to b exactly when the prev link of b leads
\* to a. (Manifest ids are unique.)
C9_NextChain ==
    /\ UniqueIds(manifest)
    /\ AllRendered =>
         /\ Walk(manifest[1].id, Len(manifest) + 1) = [i \in DOMAIN manifest |-> manifest[i].id]
         /\ view[manifest[Len(manifest)].id].nextLink = Null
    /\ \A a, b \in ManifestIds(manifest) :
         (view[a] # None /\ view[b] # None) =>
            ((view[a].nextLink # Null /\ view[a].nextLink.href = <<"/", b>>)
               <=> (view[b].prevLink # Null /\ view[b].prevLink.href = <<"/", a>>))

C9_Witness ==
    /\ Len(manifest) = 3
    /\ AllRendered
    /\ Walk(manifest[1].id, 4) = <<manifest[1].id, manifest[2].id, manifest[3].id>>

\* C10: the index of a rendered page is the 0-based manifest position of its
\* id and no later step changes it; so the footer position is in
\* 1..manifest.length, the width of the progress bar is in (0%, 100%], and
\* the sidebar marks exactly one entry, the one of the page; no page is
\* rendered for an id outside the manifest.
C10_IndexFixed ==
    /\ [](\A id \in DOMAIN view :
            view[id] # None =>
                LET v == view[id]
                IN  /\ id \in ManifestIds(manifest)
                    /\ v.key = id
                    /\ v.index = PosOf(id) - 1
                    /\ v.index # -1
                    /\ v.footer.position = v.index + 1
                    /\ v.footer.position \in 1..Len(manifest)
                    /\ v.footer.total = Len(manifest)
                    /\ v.footer.width.num > 0
                    /\ v.footer.width.num <= 100 * v.footer.width.den
                    /\ Cardinality({ i \in DOMAIN v.sidebar : v.sidebar[i].active }) = 1
                    /\ v.sidebar[PosOf(id)].active
                    /\ v.sidebar[PosOf(id)].href = <<"/", id>>)
    /\ [](\A id \in RequestIds \ ManifestIds(manifest) :
            props[id] = None /\ id \notin DOMAIN view)
    /\ [][\A id \in DOMAIN view :
            view[id] # None => view'[id].index = view[id].index]_vars

C10_Witness ==
    /\ Len(manifest) = 3
    /\ view[manifest[3].id] # None
    /\ view[manifest[3].id].renders = MaxRenders
    /\ view[manifest[3].id].index = 2
    /\ view[manifest[3].id].footer.width = [num |-> 300, den |-> 3]

====
